---- MODULE Spec2Model ----
(***************************************************************************)
(* A model of the 2048 engine: the packed board (board.rs), the row move   *)
(* tables (utils.rs), the expectiminimax solver (solver.rs) and the game   *)
(* glue (game.rs, main.rs).                                                *)
(*                                                                         *)
(* A u16 row is an integer in 0..65535.  A u64 board state is a sequence   *)
(* of 16 nibbles, most significant first, so that element tile_idx + 1 is  *)
(* the exponent of tile tile_idx; every shift and mask the code applies to *)
(* a board is a multiple of four bits.  An f32 score or probability is an  *)
(* exact fraction <<numerator, denominator>>.                              *)
(***************************************************************************)
EXTENDS Integers, Sequences, FiniteSets, TLC

VARIABLES row, left_move, right_move,
          tiles, built, vec_out, set_idx, set_val, set_out,
          asked, transposition_table, answer, hits, nodes, calls,
          proba_4, base_max_search_depth, gameover_penalty, min_branch_proba,
          distinct_tiles_threshold, board_evaluator,
          board, result,
          monotonicity_power, score,
          autoplay, turns

vars == <<row, left_move, right_move,
          tiles, built, vec_out, set_idx, set_val, set_out,
          asked, transposition_table, answer, hits, nodes, calls,
          proba_4, base_max_search_depth, gameover_penalty, min_branch_proba,
          distinct_tiles_threshold, board_evaluator,
          board, result,
          monotonicity_power, score,
          autoplay, turns>>

rowVars == <<row, left_move, right_move>>
convVars == <<tiles, built, vec_out, set_idx, set_val, set_out>>
configVars == <<proba_4, base_max_search_depth, gameover_penalty, min_branch_proba,
                distinct_tiles_threshold, board_evaluator>>
solverVars == <<asked, transposition_table, answer, hits, nodes, calls, configVars>>
boardVars == <<board, result>>
evalVars == <<monotonicity_power, score>>
gameVars == <<autoplay, turns>>

None == "None"

(***************************************************************************)
(* Machine arithmetic on u16 rows.                                         *)
(***************************************************************************)
U16 == 0..65535

RECURSIVE NibOr(_, _)
NibOr(x, y) ==
    IF x = 0 THEN y
    ELSE IF y = 0 THEN x
    ELSE (IF x % 2 = 1 \/ y % 2 = 1 THEN 1 ELSE 0) + 2 * NibOr(x \div 2, y \div 2)

\* a | b on unsigned integers
RECURSIVE BitOr(_, _)
BitOr(a, b) ==
    IF a = 0 THEN b
    ELSE IF b = 0 THEN a
    ELSE NibOr(a % 16, b % 16) + 16 * BitOr(a \div 16, b \div 16)

\* (x << n) on a u16: the bits shifted past bit 15 are lost
Shl16(x, n) == (x * 2^n) % 65536

\* the nibble of row selected by ((row & (0b1111 << 4 * (3 - i))) >> 4 * (3 - i))
RowNibble(r, i) == (r \div 2^(4 * (3 - i))) % 16

\* utils.rs set_value_in_row: (row & clear_mask) | update_mask
set_value_in_row(r, idx, value) ==
    LET shift == 4 * (3 - idx)
        cleared == r - RowNibble(r, idx) * 2^shift
        update_mask == Shl16(value, shift)
    IN  BitOr(cleared, update_mask)

U8MAX == 255

\* one iteration of the loop of get_left_move in which a merged tile stays
\* the previous value, so that it can merge again
left_step_remerge(st, r, i) ==
    LET value == RowNibble(r, i)
    IN  IF value = 0
        THEN [st EXCEPT !.moved = TRUE, !.value_idx = @ + 1]
        ELSE IF value = st.prev_value
        THEN [st EXCEPT
                !.result = set_value_in_row(
                               set_value_in_row(@, st.new_value_idx - 1, value + 1),
                               st.value_idx, 0),
                !.prev_value = value + 1,
                !.moved = TRUE,
                !.value_idx = @ + 1]
        ELSE [st EXCEPT
                !.result = IF st.moved
                           THEN set_value_in_row(
                                    set_value_in_row(@, st.new_value_idx, value),
                                    st.value_idx, 0)
                           ELSE @,
                !.prev_value = value,
                !.new_value_idx = @ + 1,
                !.value_idx = @ + 1]

\* one iteration of the loop of get_left_move that rewrites every tile, not
\* only the ones met after a move
left_step_unguarded(st, r, i) ==
    LET value == RowNibble(r, i)
    IN  IF value = 0
        THEN [st EXCEPT !.moved = TRUE, !.value_idx = @ + 1]
        ELSE IF value = st.prev_value
        THEN [st EXCEPT
                !.result = set_value_in_row(
                               set_value_in_row(@, st.new_value_idx - 1, value + 1),
                               st.value_idx, 0),
                !.prev_value = U8MAX,
                !.moved = TRUE,
                !.value_idx = @ + 1]
        ELSE [st EXCEPT
                !.result = set_value_in_row(
                               set_value_in_row(@, st.new_value_idx, value),
                               st.value_idx, 0),
                !.prev_value = value,
                !.new_value_idx = @ + 1,
                !.value_idx = @ + 1]

\* one iteration of the loop of get_left_move
left_step(st, r, i) ==
    LET value == RowNibble(r, i)
    IN  IF value = 0
        THEN [st EXCEPT !.moved = TRUE, !.value_idx = @ + 1]
        ELSE IF value = st.prev_value
        THEN [st EXCEPT
                !.result = set_value_in_row(
                               set_value_in_row(@, st.new_value_idx - 1, value + 1),
                               st.value_idx, 0),
                !.prev_value = U8MAX,
                !.moved = TRUE,
                !.value_idx = @ + 1]
        ELSE [st EXCEPT
                !.result = IF st.moved
                           THEN set_value_in_row(
                                    set_value_in_row(@, st.new_value_idx, value),
                                    st.value_idx, 0)
                           ELSE @,
                !.prev_value = value,
                !.new_value_idx = @ + 1,
                !.value_idx = @ + 1]

get_left_move(r) ==
    LET s0 == [result |-> r, value_idx |-> 0, prev_value |-> U8MAX,
               new_value_idx |-> 0, moved |-> FALSE]
        s1 == left_step(s0, r, 0)
        s2 == left_step(s1, r, 1)
        s3 == left_step(s2, r, 2)
        s4 == left_step(s3, r, 3)
    IN  s4.result

\* one iteration of the loop of get_right_move
right_step(st, r, i) ==
    LET value == RowNibble(r, i)
        dec_idx == IF st.value_idx > 0 THEN st.value_idx - 1 ELSE st.value_idx
    IN  IF value = 0
        THEN [st EXCEPT !.moved = TRUE, !.value_idx = dec_idx]
        ELSE IF value = st.prev_value
        THEN [st EXCEPT
                !.result = set_value_in_row(
                               set_value_in_row(@, st.new_value_idx + 1, value + 1),
                               st.value_idx, 0),
                !.prev_value = U8MAX,
                !.moved = TRUE,
                !.value_idx = dec_idx]
        ELSE [st EXCEPT
                !.result = IF st.moved
                           THEN set_value_in_row(
                                    set_value_in_row(@, st.new_value_idx, value),
                                    st.value_idx, 0)
                           ELSE @,
                !.prev_value = value,
                !.new_value_idx = IF @ > 0 THEN @ - 1 ELSE @,
                !.value_idx = dec_idx]

get_right_move(r) ==
    LET s0 == [result |-> r, value_idx |-> 3, prev_value |-> U8MAX,
               new_value_idx |-> 3, moved |-> FALSE]
        s1 == right_step(s0, r, 3)
        s2 == right_step(s1, r, 2)
        s3 == right_step(s2, r, 1)
        s4 == right_step(s3, r, 0)
    IN  s4.result

build_left_moves_table == [r \in U16 |-> get_left_move(r)]

build_right_moves_table == [r \in U16 |-> get_right_move(r)]

LEFT_MOVES_TABLE == build_left_moves_table

RIGHT_MOVES_TABLE == build_right_moves_table

(***************************************************************************)
(* Board: the u64 state as 16 nibbles, most significant first.             *)
(***************************************************************************)
NbTiles == 16

TileIdx == 0..15

ZeroState == [i \in 1..16 |-> 0]

\* x << 4*k on a u64: the k leading nibbles are lost
Shl64(x, k) == [i \in 1..16 |-> IF i + k <= 16 THEN x[i + k] ELSE 0]

\* x >> 4*k on a u64
Shr64(x, k) == [i \in 1..16 |-> IF i - k >= 1 THEN x[i - k] ELSE 0]

Or64(x, y) == [i \in 1..16 |-> NibOr(x[i], y[i])]

\* x & mask, the mask given by the nibbles it keeps (every mask of board.rs
\* is made of whole nibbles 0x0 and 0xF)
And64(x, mask) == [i \in 1..16 |-> IF mask[i] = 1 THEN x[i] ELSE 0]

PANIC == -1

\* get_exponent with a catch-all arm that maps every other value to 0
get_exponent_lenient(value) ==
    IF \E k \in 1..15 : value = 2^k
    THEN CHOOSE k \in 1..15 : value = 2^k
    ELSE 0

\* utils.rs get_exponent; PANIC stands for panic!("Invalid tile value")
get_exponent(value) ==
    CASE value = 0 -> 0
      [] value = 2 -> 1
      [] value = 4 -> 2
      [] value = 8 -> 3
      [] value = 16 -> 4
      [] value = 32 -> 5
      [] value = 64 -> 6
      [] value = 128 -> 7
      [] value = 256 -> 8
      [] value = 512 -> 9
      [] value = 1024 -> 10
      [] value = 2048 -> 11
      [] value = 4096 -> 12
      [] value = 8192 -> 13
      [] value = 16384 -> 14
      [] value = 32768 -> 15
      [] OTHER -> PANIC

\* Board::get_exponent_value
get_exponent_value(state, tile_idx) == state[tile_idx + 1]

\* Board::get_value
get_value(state, tile_idx) ==
    LET exponent == get_exponent_value(state, tile_idx)
    IN  IF exponent = 0 THEN 0 ELSE Shl16(2, exponent - 1)

\* Board::set_value_by_exponent without the clear mask: state | update_mask
set_value_by_exponent_no_clear(state, tile_idx, value_exponent) ==
    [state EXCEPT ![tile_idx + 1] = NibOr(@, value_exponent)]

\* Board::set_value_by_exponent, for the exponents 0..15 its callers pass:
\* (state & clear_mask) | (value_exponent << bits_shift)
set_value_by_exponent(state, tile_idx, value_exponent) ==
    [state EXCEPT ![tile_idx + 1] = NibOr(0, value_exponent)]

\* Board::set_value; the panic of get_exponent aborts the call
set_value(state, tile_idx, tile_value) ==
    LET exponent == get_exponent(tile_value)
    IN  IF exponent = PANIC
        THEN [kind |-> "panic", value |-> tile_value]
        ELSE [kind |-> "ok", state |-> set_value_by_exponent(state, tile_idx, exponent)]

\* impl From<Vec<u16>> for Board: state <<= 4; state |= get_exponent(tile_value)
RECURSIVE FromVecLoop(_, _, _)
FromVecLoop(state, tls, i) ==
    IF i > Len(tls)
    THEN [kind |-> "ok", state |-> state]
    ELSE LET exponent == get_exponent(tls[i])
         IN  IF exponent = PANIC
             THEN [kind |-> "panic", value |-> tls[i]]
             ELSE FromVecLoop(
                      [Shl64(state, 1) EXCEPT ![16] = NibOr(@, exponent)], tls, i + 1)

BoardFromVec(tls) == FromVecLoop(ZeroState, tls, 1)

\* impl IntoIterator for Board: exponent = state >> 60; state <<= 4; 16 times
RECURSIVE BoardIntoIter(_, _)
BoardIntoIter(state, index) ==
    IF index = 16
    THEN <<>>
    ELSE <<state[1]>> \o BoardIntoIter(Shl64(state, 1), index + 1)

\* the closure of From<Board> for Vec<u16>, off by one bit
TileOfExponent_shift1(tile_exponent) ==
    IF tile_exponent = 0 THEN 0 ELSE Shl16(1, tile_exponent - 1)

\* the closure of From<Board> for Vec<u16>: 2 << (tile_exponent - 1) as a u16
TileOfExponent(tile_exponent) ==
    IF tile_exponent = 0 THEN 0 ELSE Shl16(2, tile_exponent - 1)

\* impl From<Board> for Vec<u16>
VecFromBoard(state) ==
    LET exps == BoardIntoIter(state, 0)
    IN  [i \in 1..Len(exps) |-> TileOfExponent(exps[i])]

\* Board::rows
rows(state) ==
    [k \in 1..4 |-> state[4 * k - 3] * 4096 + state[4 * k - 2] * 256
                    + state[4 * k - 1] * 16 + state[4 * k]]

MaskA1 == <<1,0,1,0, 0,1,0,1, 1,0,1,0, 0,1,0,1>>

MaskA2 == <<0,0,0,0, 1,0,1,0, 0,0,0,0, 1,0,1,0>>

MaskA3 == <<0,1,0,1, 0,0,0,0, 0,1,0,1, 0,0,0,0>>

MaskB1 == <<1,1,0,0, 1,1,0,0, 0,0,1,1, 0,0,1,1>>

MaskB2 == <<0,0,1,1, 0,0,1,1, 0,0,0,0, 0,0,0,0>>

MaskB3 == <<0,0,0,0, 0,0,0,0, 1,1,0,0, 1,1,0,0>>

\* Board::transpose with a3 shifted by 8 bits instead of 12
transpose_short_shift(x) ==
    LET a == Or64(Or64(And64(x, MaskA1), Shl64(And64(x, MaskA2), 3)),
                  Shr64(And64(x, MaskA3), 2))
    IN  Or64(Or64(And64(a, MaskB1), Shr64(And64(a, MaskB2), 6)),
             Shl64(And64(a, MaskB3), 6))

\* Board::transpose
transpose(x) ==
    LET a == Or64(Or64(And64(x, MaskA1), Shl64(And64(x, MaskA2), 3)),
                  Shr64(And64(x, MaskA3), 3))
    IN  Or64(Or64(And64(a, MaskB1), Shr64(And64(a, MaskB2), 6)),
             Shl64(And64(a, MaskB3), 6))

\* Board::columns
columns(state) == rows(transpose(state))

\* acc.state |= (TABLE[row] as u64) << (16 * (3 - row_idx)), for the four rows
AssembleRows(moved) ==
    [i \in 1..16 |-> RowNibble(moved[((i - 1) \div 4) + 1], (i - 1) % 4)]

\* the four masked shifts of into_up and into_down: nibble r of the moved
\* column col_idx lands at row r, column col_idx
AssembleColumns(moved) ==
    [i \in 1..16 |-> RowNibble(moved[((i - 1) % 4) + 1], (i - 1) \div 4)]

into_left(state) ==
    LET r == rows(state)
    IN  AssembleRows(<<LEFT_MOVES_TABLE[r[1]], LEFT_MOVES_TABLE[r[2]],
                       LEFT_MOVES_TABLE[r[3]], LEFT_MOVES_TABLE[r[4]]>>)

into_right(state) ==
    LET r == rows(state)
    IN  AssembleRows(<<RIGHT_MOVES_TABLE[r[1]], RIGHT_MOVES_TABLE[r[2]],
                       RIGHT_MOVES_TABLE[r[3]], RIGHT_MOVES_TABLE[r[4]]>>)

\* into_up looking the columns up in the table of into_down
into_up_right_table(state) ==
    LET c == rows(transpose(state))
    IN  AssembleColumns(<<RIGHT_MOVES_TABLE[c[1]], RIGHT_MOVES_TABLE[c[2]],
                          RIGHT_MOVES_TABLE[c[3]], RIGHT_MOVES_TABLE[c[4]]>>)

into_up(state) ==
    LET c == rows(transpose(state))
    IN  AssembleColumns(<<LEFT_MOVES_TABLE[c[1]], LEFT_MOVES_TABLE[c[2]],
                          LEFT_MOVES_TABLE[c[3]], LEFT_MOVES_TABLE[c[4]]>>)

into_down(state) ==
    LET c == rows(transpose(state))
    IN  AssembleColumns(<<RIGHT_MOVES_TABLE[c[1]], RIGHT_MOVES_TABLE[c[2]],
                          RIGHT_MOVES_TABLE[c[3]], RIGHT_MOVES_TABLE[c[4]]>>)

\* Direction::all
Direction_all == <<"Left", "Right", "Up", "Down">>

\* Board::move_to
move_to(state, direction) ==
    CASE direction = "Left" -> into_left(state)
      [] direction = "Right" -> into_right(state)
      [] direction = "Up" -> into_up(state)
      [] direction = "Down" -> into_down(state)

\* EmptyTilesIterator: the indices whose nibble is 0, ascending
RECURSIVE EmptyTilesFrom(_, _)
EmptyTilesFrom(state, index) ==
    IF index = 16
    THEN <<>>
    ELSE (IF state[1] = 0 THEN <<index>> ELSE <<>>)
         \o EmptyTilesFrom(Shl64(state, 1), index + 1)

\* Board::empty_tiles_indices with the iterator started one tile late
empty_tiles_indices_skip_first(state) == EmptyTilesFrom(Shl64(state, 1), 1)

empty_tiles_indices(state) == EmptyTilesFrom(state, 0)

\* Board::count_empty_tiles: the fold adds 1 for every index yielded
count_empty_tiles(state) == Len(empty_tiles_indices(state))

\* Board::max_value: 1 << max exponent, as a u16
max_value(state) ==
    LET exponent == CHOOSE e \in {state[i] : i \in 1..16} :
                        \A f \in {state[i] : i \in 1..16} : f <= e
    IN  Shl16(1, exponent)

\* the first loop of count_distinct_tiles:
\* while state != 0 { bitset |= 1 << (state & 0b1111); state >>= 4; }
RECURSIVE DistinctBitset(_, _)
DistinctBitset(state, bitset) ==
    IF state = ZeroState
    THEN bitset
    ELSE DistinctBitset(Shr64(state, 1), BitOr(bitset, Shl16(1, state[16])))

\* bitset & (bitset - 1), for bitset != 0: the lowest set bit is cleared
RECURSIVE ClearLowestBit(_)
ClearLowestBit(bitset) ==
    IF bitset % 2 = 1 THEN bitset - 1 ELSE 2 * ClearLowestBit(bitset \div 2)

\* the second loop of count_distinct_tiles:
\* while bitset != 0 { bitset &= bitset - 1; count += 1; }
RECURSIVE CountBits(_, _)
CountBits(bitset, count) ==
    IF bitset = 0 THEN count ELSE CountBits(ClearLowestBit(bitset), count + 1)

\* Board::count_distinct_tiles without bitset >>= 1: the empty tiles count too
count_distinct_tiles_with_empty(state) == CountBits(DistinctBitset(state, 0), 0)

\* Board::count_distinct_tiles
count_distinct_tiles(state) == CountBits(DistinctBitset(state, 0) \div 2, 0)

(***************************************************************************)
(* Scores and probabilities: exact fractions <<n, d>> in lowest terms.     *)
(***************************************************************************)
Abs(n) == IF n < 0 THEN -n ELSE n

RECURSIVE Gcd(_, _)
Gcd(a, b) == IF b = 0 THEN a ELSE Gcd(b, a % b)

Norm(n, d) == LET g == Gcd(Abs(n), d) IN <<n \div g, d \div g>>

FAdd(a, b) ==
    LET g == Gcd(a[2], b[2])
        l == (a[2] \div g) * b[2]
    IN  Norm(a[1] * (l \div a[2]) + b[1] * (l \div b[2]), l)

FMul(a, b) ==
    LET g1 == Gcd(Abs(a[1]), b[2])
        g2 == Gcd(Abs(b[1]), a[2])
    IN  Norm((a[1] \div g1) * (b[1] \div g2), (a[2] \div g2) * (b[2] \div g1))

\* a / n for a count n
FDivInt(a, n) == FMul(a, <<1, n>>)

\* a < b
FLess(a, b) ==
    LET g == Gcd(a[2], b[2])
    IN  a[1] * (b[2] \div g) < b[1] * (a[2] \div g)

FOne == <<1, 1>>

FZero == <<0, 1>>

\* 1. - p
FComplement(p) == <<p[2] - p[1], p[2]>>

(***************************************************************************)
(* Evaluators.                                                             *)
(***************************************************************************)
\* EmptyTileEvaluator::evaluate_row with the default power 1: the number of
\* nibbles of the row that are 0
EmptyTile_evaluate_row(r) ==
    Cardinality({i \in 0..3 : RowNibble(r, i) = 0})

\* impl<T: RowColumnEvaluator> BoardEvaluator for T: the sum over the four
\* rows and the four columns
RowColumn_evaluate(state) ==
    LET r == rows(state)
        c == columns(state)
    IN  EmptyTile_evaluate_row(r[1]) + EmptyTile_evaluate_row(c[1])
        + EmptyTile_evaluate_row(r[2]) + EmptyTile_evaluate_row(c[2])
        + EmptyTile_evaluate_row(r[3]) + EmptyTile_evaluate_row(c[3])
        + EmptyTile_evaluate_row(r[4]) + EmptyTile_evaluate_row(c[4])

\* DummyEvaluator of the solver's test: board.max_value() as f32 / 32768.
Dummy_evaluate(state) == Norm(max_value(state), 32768)

\* self.board_evaluator.evaluate(board)
evaluate(state) ==
    IF board_evaluator = "Dummy"
    THEN Dummy_evaluate(state)
    ELSE <<RowColumn_evaluate(state), 1>>

\* Board::get_row(i), the i-th of the four packed rows
get_row(state, i) == rows(state)[i + 1]

\* Board::get_column(i), the i-th of the four packed columns
get_column(state, i) == columns(state)[i + 1]

\* n as f32 for an integer n: below 2^24 every integer is an f32, above the
\* nearest multiple of the unit in the last place, ties to the even one
RECURSIVE Ulp(_, _)
Ulp(n, u) == IF n < 16777216 * u THEN u ELSE Ulp(n, 2 * u)

AsF32(n) ==
    LET m == Abs(n)
        u == Ulp(m, 1)
        q == m \div u
        rem == m % u
        rounded == IF 2 * rem > u \/ (2 * rem = u /\ q % 2 = 1) THEN q + 1 ELSE q
    IN  IF n < 0 THEN -(rounded * u) ELSE rounded * u

\* a + b and a * b on integer-valued f32
F32Add(a, b) == AsF32(a + b)

F32Mul(a, b) == AsF32(a * b)

\* EmptyTileEvaluator::evaluate_row: nb_empty.pow(self.power) as f32
EmptyTileEvaluator_evaluate_row(power, r) ==
    AsF32(Cardinality({i \in 0..3 : RowNibble(r, i) = 0}) ^ power)

\* AlignmentEvaluator::evaluate_row: the adjacent pairs of equal tiles,
\* nb_aligned.pow(self.power) as f32
AlignmentEvaluator_evaluate_row(power, r) ==
    AsF32(Cardinality({i \in 0..2 : /\ RowNibble(r, i) = RowNibble(r, i + 1)
                                     /\ RowNibble(r, i) # 0}) ^ power)

\* one iteration of the loop of MonotonicityEvaluator::evaluate_row
Monotonicity_step(st, r, col, power) ==
    LET v == RowNibble(r, col)
    IN  IF v < st.left_value
        THEN [st EXCEPT !.left_right_inversions = @ + (st.left_value ^ power - v ^ power),
                        !.left_value = v]
        ELSE IF v > st.left_value
        THEN [st EXCEPT !.right_left_inversions = @ + (v ^ power - st.left_value ^ power),
                        !.left_value = v]
        ELSE [st EXCEPT !.left_value = v]

\* MonotonicityEvaluator::evaluate_row with max in place of min
MonotonicityEvaluator_evaluate_row_max(power, r) ==
    LET s0 == [left_value |-> r \div 4096, left_right_inversions |-> 0,
               right_left_inversions |-> 0]
        s3 == Monotonicity_step(
                  Monotonicity_step(Monotonicity_step(s0, r, 1, power), r, 2, power),
                  r, 3, power)
    IN  -AsF32(IF s3.left_right_inversions >= s3.right_left_inversions
               THEN s3.left_right_inversions ELSE s3.right_left_inversions)

\* MonotonicityEvaluator::evaluate_row:
\* -(min(left_right_inversions, right_left_inversions) as f32)
MonotonicityEvaluator_evaluate_row(power, r) ==
    LET s0 == [left_value |-> r \div 4096, left_right_inversions |-> 0,
               right_left_inversions |-> 0]
        s3 == Monotonicity_step(
                  Monotonicity_step(Monotonicity_step(s0, r, 1, power), r, 2, power),
                  r, 3, power)
    IN  -AsF32(IF s3.left_right_inversions <= s3.right_left_inversions
               THEN s3.left_right_inversions ELSE s3.right_left_inversions)

\* evaluate_row of one of the three named heuristics
Heuristic_evaluate_row(evaluator, r) ==
    CASE evaluator.kind = "EmptyTile" ->
           EmptyTileEvaluator_evaluate_row(evaluator.power, r)
      [] evaluator.kind = "Alignment" ->
           AlignmentEvaluator_evaluate_row(evaluator.power, r)
      [] evaluator.kind = "Monotonicity" ->
           MonotonicityEvaluator_evaluate_row(evaluator.power, r)

\* CombinedBoardEvaluator::evaluate_row: the sum of weight * evaluate_row
RECURSIVE Combined_evaluate_row(_, _, _)
Combined_evaluate_row(evaluators, r, k) ==
    IF k = 0
    THEN 0
    ELSE F32Add(Combined_evaluate_row(evaluators, r, k - 1),
                F32Mul(evaluators[k].weight,
                       Heuristic_evaluate_row(evaluators[k].evaluator, r)))

\* CombinedBoardEvaluator::gameover_penalty: the sum of the penalties
RECURSIVE Combined_gameover_penalty(_, _)
Combined_gameover_penalty(evaluators, k) ==
    IF k = 0
    THEN 0
    ELSE F32Add(Combined_gameover_penalty(evaluators, k - 1),
                evaluators[k].evaluator.gameover_penalty)

\* RowColumnEvaluator::evaluate_row
evaluate_row(evaluator, r) ==
    IF evaluator.kind = "Combined"
    THEN Combined_evaluate_row(evaluator.evaluators, r, Len(evaluator.evaluators))
    ELSE Heuristic_evaluate_row(evaluator, r)

\* RowColumnEvaluator::gameover_penalty
RowColumnEvaluator_gameover_penalty(evaluator) ==
    IF evaluator.kind = "Combined"
    THEN Combined_gameover_penalty(evaluator.evaluators, Len(evaluator.evaluators))
    ELSE evaluator.gameover_penalty

\* impl<T: RowColumnEvaluator> BoardEvaluator for T:
\* (0..4).map(|i| evaluate_row(get_row(i)) + evaluate_row(get_column(i))).sum()
RECURSIVE RowColumnEvaluator_evaluate(_, _, _)
RowColumnEvaluator_evaluate(evaluator, state, n) ==
    IF n = 0
    THEN 0
    ELSE F32Add(RowColumnEvaluator_evaluate(evaluator, state, n - 1),
                F32Add(evaluate_row(evaluator, get_row(state, n - 1)),
                       evaluate_row(evaluator, get_column(state, n - 1))))

\* PrecomputedBoardEvaluator::new: the pair of the fields row_cache and
\* gameover_penalty
PrecomputedBoardEvaluator_new(evaluator) ==
    << [r \in U16 |-> evaluate_row(evaluator, r)],
       RowColumnEvaluator_gameover_penalty(evaluator) >>

\* self.row_cache[r]
row_cache(precomputed, r) == precomputed[1][r]

\* impl BoardEvaluator for PrecomputedBoardEvaluator: gameover_penalty
PrecomputedBoardEvaluator_gameover_penalty(precomputed) == precomputed[2]

\* PrecomputedBoardEvaluator::evaluate adding the row entry twice
RECURSIVE PrecomputedBoardEvaluator_evaluate_rows_twice(_, _, _)
PrecomputedBoardEvaluator_evaluate_rows_twice(precomputed, state, n) ==
    IF n = 0
    THEN 0
    ELSE F32Add(PrecomputedBoardEvaluator_evaluate_rows_twice(precomputed, state, n - 1),
                F32Add(row_cache(precomputed, get_row(state, n - 1)),
                       row_cache(precomputed, get_row(state, n - 1))))

\* impl BoardEvaluator for PrecomputedBoardEvaluator:
\* (0..4).map(|i| row_cache[get_row(i)] + row_cache[get_column(i)]).sum()
RECURSIVE PrecomputedBoardEvaluator_evaluate(_, _, _)
PrecomputedBoardEvaluator_evaluate(precomputed, state, n) ==
    IF n = 0
    THEN 0
    ELSE F32Add(PrecomputedBoardEvaluator_evaluate(precomputed, state, n - 1),
                F32Add(row_cache(precomputed, get_row(state, n - 1)),
                       row_cache(precomputed, get_column(state, n - 1))))

(***************************************************************************)
(* Solver.  The search threads ctx = [tt, hits]: tt is the transposition   *)
(* table, a function from boards to entries; an entry carries, besides the *)
(* (value, remaining depth) pair the code stores, the branch probability   *)
(* it was computed under, which only the properties read; hits is the log  *)
(* of the lookups answered from the table.                                 *)
(***************************************************************************)
NoneMove == [kind |-> "None"]

\* Iterator::max_by folds with the later element unless the earlier compares
\* Greater, here with the earlier element winning on Equal
max_by_fold_first(x, y) == IF FLess(x.score, y.score) THEN y ELSE x

\* the fold turned upside down: min_by
max_by_fold_min(x, y) == IF FLess(y.score, x.score) THEN y ELSE x

\* the fold step of Iterator::max_by with
\* |(_, lhs), (_, rhs)| lhs.partial_cmp(rhs).unwrap():
\* keeps x only when x compares Greater than y
max_by_fold(x, y) == IF FLess(y.score, x.score) THEN x ELSE y

\* self.transposition_table.clear() left out
table_keep(table) == table

\* self.transposition_table.clear()
table_clear(table) == <<>>

\* the leaf test of eval_average without the pruning of unlikely branches
is_leaf_depth_only(remaining_depth, branch_proba) == remaining_depth = 0

\* the leaf test of eval_average:
\* remaining_depth == 0 || branch_proba < self.min_branch_proba
is_leaf(remaining_depth, branch_proba) ==
    remaining_depth = 0 \/ FLess(branch_proba, min_branch_proba)

\* the reuse test of eval_average: *cached_remaining_depth >= remaining_depth
cache_valid(cached_remaining_depth, remaining_depth) ==
    cached_remaining_depth >= remaining_depth

\* the filter of eval_max that lets no direction through
is_noop_always(state, new_board) == TRUE

\* the filter of eval_max: board == new_board
is_noop(state, new_board) == state = new_board

\* `let x = e;`: e is evaluated once and Op is applied to its value
Let(Op(_), e) == CHOOSE out \in {Op(x) : x \in {e}} : TRUE

RECURSIVE eval_max_loop(_, _, _, _, _)
RECURSIVE eval_average(_, _, _, _)
RECURSIVE chance_loop(_, _, _, _, _)

\* the closure of filter_map in eval_max followed by the fold of max_by, for
\* the direction d: acc holds the best candidate so far, the candidates so
\* far and the search context
eval_max_step(state, remaining_depth, branch_proba, d, acc) ==
    Let(LAMBDA new_board :
          IF is_noop(state, new_board)
          THEN acc
          ELSE Let(LAMBDA r :
                     [best |-> IF acc.best.kind = "None"
                               THEN [kind |-> "Some", direction |-> d,
                                     score |-> r.value]
                               ELSE max_by_fold(acc.best,
                                                [kind |-> "Some", direction |-> d,
                                                 score |-> r.value]),
                      cands |-> Append(acc.cands,
                                       [kind |-> "Some", direction |-> d,
                                        score |-> r.value]),
                      ctx |-> r.ctx],
                   eval_average(new_board, remaining_depth, branch_proba, acc.ctx)),
        move_to(state, d))

\* Solver::eval_max over the first k directions of Direction::all()
eval_max_loop(state, remaining_depth, branch_proba, k, ctx) ==
    IF k = 0
    THEN [best |-> NoneMove, cands |-> <<>>, ctx |-> ctx]
    ELSE Let(LAMBDA acc :
               eval_max_step(state, remaining_depth, branch_proba,
                             Direction_all[k], acc),
             eval_max_loop(state, remaining_depth, branch_proba, k - 1, ctx))

\* Solver::eval_max
eval_max(state, remaining_depth, branch_proba, ctx) ==
    eval_max_loop(state, remaining_depth, branch_proba, Len(Direction_all), ctx)

\* the (draw, proba) pairs of eval_average with the two weights exchanged
draw_proba_swapped(draw) == IF draw = 1 THEN proba_4 ELSE FComplement(proba_4)

\* vec![(idx, 1, 1. - proba_4), (idx, 2, proba_4)]: the weight of a draw
draw_proba(draw) == IF draw = 1 THEN FComplement(proba_4) ELSE proba_4

\* the value of a dead end taken from the evaluator
max_score_evaluated(best, board_with_draw) ==
    IF best.kind = "None" THEN evaluate(board_with_draw) ELSE best.score

\* .map(|(_, score)| score).unwrap_or(self.gameover_penalty)
max_score(best, board_with_draw) ==
    IF best.kind = "None" THEN gameover_penalty ELSE best.score

\* the branch probability handed down as the sum of the two probabilities
child_branch_proba_added(branch_proba, proba) == FAdd(branch_proba, proba)

\* branch_proba * proba, the branch probability eval_average hands to eval_max
child_branch_proba(branch_proba, proba) == FMul(branch_proba, proba)

\* the closure of map in eval_average for one (idx, draw, proba), added to
\* the running sum; children and ctx.nodes keep what each expanded node
\* asked of its children and got back
chance_step(state, remaining_depth, branch_proba, idx, draw, acc) ==
    LET proba == draw_proba(draw)
    IN  Let(LAMBDA a :
              Let(LAMBDA r :
                    [scores_sum |->
                         FAdd(acc.scores_sum,
                              FMul(max_score(r.best, a.board_with_draw), proba)),
                     children |->
                         Append(acc.children,
                                [idx |-> idx, draw |-> draw, proba |-> proba,
                                 board |-> a.board_with_draw,
                                 remaining_depth |-> remaining_depth - 1,
                                 branch_proba |-> a.branch_proba,
                                 kind |-> r.best.kind,
                                 max_score |-> max_score(r.best, a.board_with_draw)]),
                     ctx |-> r.ctx],
                  eval_max(a.board_with_draw, remaining_depth - 1, a.branch_proba,
                           acc.ctx)),
            [board_with_draw |-> set_value_by_exponent(state, idx, draw),
             branch_proba |-> child_branch_proba(branch_proba, proba)])

\* the sum of eval_average over the first j outcomes (idx, draw, proba):
\* outcome 2i-1 fills the i-th empty tile with a 2, outcome 2i with a 4
chance_loop(state, remaining_depth, branch_proba, j, ctx) ==
    IF j = 0
    THEN [scores_sum |-> FZero, children |-> <<>>, ctx |-> ctx]
    ELSE Let(LAMBDA acc :
               chance_step(state, remaining_depth, branch_proba,
                           empty_tiles_indices(state)[(j + 1) \div 2],
                           IF j % 2 = 1 THEN 1 ELSE 2, acc),
             chance_loop(state, remaining_depth, branch_proba, j - 1, ctx))

\* Solver::eval_average
eval_average(state, remaining_depth, branch_proba, ctx) ==
    IF /\ state \in DOMAIN ctx.tt
       /\ cache_valid(ctx.tt[state].remaining_depth, remaining_depth)
    THEN [value |-> ctx.tt[state].value,
          ctx |-> [ctx EXCEPT !.hits = @ \cup
                     {[board |-> state,
                       cached_value |-> ctx.tt[state].value,
                       cached_remaining_depth |-> ctx.tt[state].remaining_depth,
                       cached_branch_proba |-> ctx.tt[state].branch_proba,
                       remaining_depth |-> remaining_depth,
                       branch_proba |-> branch_proba]}]]
    ELSE Let(LAMBDA r :
               [value |-> r.value,
                ctx |-> [r.ctx EXCEPT !.tt =
                           (state :> [value |-> r.value,
                                      remaining_depth |-> remaining_depth,
                                      branch_proba |-> branch_proba]) @@ @]],
             IF is_leaf(remaining_depth, branch_proba)
             THEN [value |-> evaluate(state), ctx |-> ctx]
             ELSE Let(LAMBDA s :
                        [value |-> FDivInt(s.scores_sum,
                                           Len(empty_tiles_indices(state))),
                         ctx |-> [s.ctx EXCEPT !.nodes = @ \cup
                                    {[board |-> state,
                                      remaining_depth |-> remaining_depth,
                                      branch_proba |-> branch_proba,
                                      children |-> s.children,
                                      value |-> FDivInt(s.scores_sum,
                                                   Len(empty_tiles_indices(state)))]}]],
                      chance_loop(state, remaining_depth, branch_proba,
                                  2 * Len(empty_tiles_indices(state)), ctx)))

\* the depth of next_best_move without the floor of base_max_search_depth:
\* count_distinct_tiles().saturating_sub(distinct_tiles_threshold)
max_depth_saturating(state) ==
    LET adjusted == count_distinct_tiles(state) - distinct_tiles_threshold
    IN  IF adjusted > 0 THEN adjusted ELSE 0

\* max(base_max_search_depth as isize, count_distinct_tiles() as isize
\*     - distinct_tiles_threshold as isize)
max_depth(state) ==
    LET adjusted == count_distinct_tiles(state) - distinct_tiles_threshold
    IN  IF base_max_search_depth >= adjusted THEN base_max_search_depth ELSE adjusted

\* Solver::next_best_move on a solver whose table is `table`
next_best_move(state, table) ==
    eval_max(state, max_depth(state), FOne,
             [tt |-> table_clear(table), hits |-> {}, nodes |-> {}])

(***************************************************************************)
(* Inputs and idle values.                                                 *)
(***************************************************************************)
\* the longest Vec<u16> handed to Board::from
MaxLen == 17

\* the number of next_best_move calls made on one solver
MaxCalls == 2

ValidTileValues == {0} \cup {2^k : k \in 1..15}

\* the tile values tried: every valid one and some that get_exponent rejects
SampleValues == ValidTileValues \cup {1, 3, 6, 65535}

\* a Vec<u16> of the given length: fill pattern k, a at position pa, b last
SampleVec(len, k, a, pa, b) ==
    [i \in 1..len |-> IF i = pa THEN a
                      ELSE IF i = len THEN b
                      ELSE IF (k * i) % 16 = 0 THEN 0 ELSE 2^((k * i) % 16)]

NoRow == <<>>

NoBoard == [kind |-> "none"]

NoVec == <<-1>>

NoAnswer == [kind |-> "none"]

IdleRow == row = 0 /\ left_move = NoRow /\ right_move = NoRow

IdleConv ==
    /\ tiles = <<>>
    /\ built = NoBoard
    /\ vec_out = NoVec
    /\ set_idx = 0
    /\ set_val = 0
    /\ set_out = NoBoard

IdleSolver ==
    /\ asked = ZeroState
    /\ transposition_table = <<>>
    /\ answer = NoAnswer
    /\ hits = {}
    /\ nodes = {}
    /\ calls = 0
    /\ proba_4 = <<1, 10>>
    /\ base_max_search_depth = 0
    /\ gameover_penalty = <<-200, 1>>
    /\ min_branch_proba = <<1, 100>>
    /\ distinct_tiles_threshold = 4
    /\ board_evaluator = "Dummy"

NoResult == [op |-> "none"]

NoScore == <<>>

IdleBoard == board = ZeroState /\ result = NoResult

IdleEval == monotonicity_power = 0 /\ score = NoScore

IdleGame == autoplay = FALSE /\ turns = 0

(***************************************************************************)
(* The move tables, one row at a time.                                     *)
(***************************************************************************)
InitRow ==
    /\ row \in U16
    /\ left_move = NoRow
    /\ right_move = NoRow
    /\ IdleConv
    /\ IdleSolver
    /\ IdleBoard
    /\ IdleEval
    /\ IdleGame

\* LEFT_MOVES_TABLE[row]
LeftMove ==
    /\ left_move = NoRow
    /\ left_move' = <<LEFT_MOVES_TABLE[row]>>
    /\ UNCHANGED <<row, right_move, convVars, solverVars, boardVars, evalVars, gameVars>>

\* RIGHT_MOVES_TABLE[row]
RightMove ==
    /\ right_move = NoRow
    /\ right_move' = <<RIGHT_MOVES_TABLE[row]>>
    /\ UNCHANGED <<row, left_move, convVars, solverVars, boardVars, evalVars, gameVars>>

NextRow == LeftMove \/ RightMove

SpecRow == InitRow /\ [][NextRow]_vars

(***************************************************************************)
(* Board construction and serialisation.                                   *)
(***************************************************************************)
InitConv ==
    /\ \E len \in 15..MaxLen, k \in {0, 1}, a \in SampleValues, b \in {0, 32768, 3} :
         \E pa \in {1, len} : tiles = SampleVec(len, k, a, pa, b)
    /\ built = NoBoard
    /\ vec_out = NoVec
    /\ set_idx = 0
    /\ set_val = 0
    /\ set_out = NoBoard
    /\ IdleRow
    /\ IdleSolver
    /\ IdleBoard
    /\ IdleEval
    /\ IdleGame

\* Board::from(tiles)
FromVec ==
    /\ built = NoBoard
    /\ built' = BoardFromVec(tiles)
    /\ UNCHANGED <<tiles, vec_out, set_idx, set_val, set_out, rowVars, solverVars, boardVars, evalVars, gameVars>>

\* Vec::from(board)
IntoVec ==
    /\ built.kind = "ok"
    /\ vec_out = NoVec
    /\ vec_out' = VecFromBoard(built.state)
    /\ UNCHANGED <<tiles, built, set_idx, set_val, set_out, rowVars, solverVars, boardVars, evalVars, gameVars>>

\* board.set_value(tile_idx, tile_value)
SetValue ==
    /\ built.kind = "ok"
    /\ set_out = NoBoard
    /\ \E idx \in TileIdx, v \in SampleValues :
         /\ set_idx' = idx
         /\ set_val' = v
         /\ set_out' = set_value(built.state, idx, v)
    /\ UNCHANGED <<tiles, built, vec_out, rowVars, solverVars, boardVars, evalVars, gameVars>>

NextConv == FromVec \/ IntoVec \/ SetValue

SpecConv == InitConv /\ [][NextConv]_vars

(***************************************************************************)
(* Reference definitions used by the properties.                           *)
(***************************************************************************)
UnpackRow(r) == <<RowNibble(r, 0), RowNibble(r, 1), RowNibble(r, 2), RowNibble(r, 3)>>

PackRow(s) == s[1] * 4096 + s[2] * 256 + s[3] * 16 + s[4]

ReverseSeq(s) == [i \in 1..Len(s) |-> s[Len(s) + 1 - i]]

ReverseRow(r) == PackRow(ReverseSeq(UnpackRow(r)))

IsTile(x) == x # 0

\* merge each pair of adjacent equal tiles once, scanning from the head
RECURSIVE RefMerge(_)
RefMerge(s) ==
    IF Len(s) < 2 THEN s
    ELSE IF s[1] = s[2] THEN <<s[1] + 1>> \o RefMerge(Tail(Tail(s)))
    ELSE <<s[1]>> \o RefMerge(Tail(s))

\* drop the empty cells, merge, pad with empty cells
RefSlideLeft(s) ==
    LET merged == RefMerge(SelectSeq(s, IsTile))
    IN  [i \in 1..4 |-> IF i <= Len(merged) THEN merged[i] ELSE 0]

RefSlideRight(s) == ReverseSeq(RefSlideLeft(ReverseSeq(s)))

RowBelow15(r) == \A i \in 0..3 : RowNibble(r, i) <= 14

\* C1: for every row of exponents 0..14 the left table entry is the reference
\* slide-left (compact, merge each adjacent equal pair once, pad right) and the
\* right entry the same from the right edge; [2,2,2,2] gives [4,4,0,0] left
\* and [0,0,4,4] right, [2,2,2,0] gives [4,2,0,0] left.
C1_TableIsReferenceSlide ==
    /\ (RowBelow15(row) /\ left_move # NoRow)
          => left_move[1] = PackRow(RefSlideLeft(UnpackRow(row)))
    /\ (RowBelow15(row) /\ right_move # NoRow)
          => right_move[1] = PackRow(RefSlideRight(UnpackRow(row)))
    /\ (row = PackRow(<<1, 1, 1, 1>>) /\ left_move # NoRow)
          => left_move[1] = PackRow(<<2, 2, 0, 0>>)
    /\ (row = PackRow(<<1, 1, 1, 1>>) /\ right_move # NoRow)
          => right_move[1] = PackRow(<<0, 0, 2, 2>>)
    /\ (row = PackRow(<<1, 1, 1, 0>>) /\ left_move # NoRow)
          => left_move[1] = PackRow(<<2, 1, 0, 0>>)

C1_Witness ==
    /\ row = PackRow(<<1, 1, 1, 0>>)
    /\ left_move = <<PackRow(<<2, 1, 0, 0>>)>>
    /\ right_move = <<PackRow(<<0, 0, 1, 2>>)>>

\* C2: for every 16-bit row, the right table entry is the mirror image of
\* the left table entry of the mirrored row.
C2_RightIsMirroredLeft ==
    right_move # NoRow
        => right_move[1] = ReverseRow(LEFT_MOVES_TABLE[ReverseRow(row)])

AllValid(tls) == \A i \in 1..Len(tls) : tls[i] \in ValidTileValues

\* C8: a sequence of exactly 16 valid tile values converted to a Board and
\* back is returned unchanged, cell for cell.
C8_RoundTrip ==
    (Len(tiles) = NbTiles /\ AllValid(tiles) /\ vec_out # NoVec) => vec_out = tiles

C8_Witness ==
    /\ Len(tiles) = NbTiles
    /\ tiles[1] = 32768
    /\ tiles[2] = 4
    /\ tiles[16] = 0
    /\ vec_out = tiles

\* C9: a sequence whose length is not 16 is rejected and produces no Board.
C9_WrongLengthRejected ==
    (built # NoBoard /\ Len(tiles) # NbTiles) => built.kind # "ok"

\* C10: Board::from and set_value succeed exactly when every tile value is 0
\* or one of 2, 4, ..., 32768; otherwise the call fails and no board is made.
C10_InvalidValueFails ==
    /\ built # NoBoard => (built.kind = "ok" <=> AllValid(tiles))
    /\ built.kind = "panic" => built.value \notin ValidTileValues
    /\ set_out # NoBoard => (set_out.kind = "ok" <=> set_val \in ValidTileValues)
    /\ set_out.kind = "ok" =>
          /\ get_value(set_out.state, set_idx) = set_val
          /\ \A i \in TileIdx : get_value(set_out.state, i) \in ValidTileValues

C10_Witness ==
    /\ built.kind = "ok"
    /\ set_out.kind = "panic"
    /\ set_val = 6

C10_WitnessFrom ==
    /\ built.kind = "panic"
    /\ built.value = 1

(***************************************************************************)
(* The solver, asked about one board after another.                        *)
(***************************************************************************)
\* a board given by its tile values, row by row
BoardOf(values) == BoardFromVec(values).state

\* a full board with a merge
BoardFull == BoardOf(<<2, 16, 8, 2,   16, 8, 2, 8,   8, 4, 16, 16,   2, 8, 2, 4>>)

\* a board from which BoardFull is one move and one draw away
BoardBefore == BoardOf(<<2, 16, 8, 2,   16, 8, 2, 8,   8, 4, 0, 16,   2, 8, 16, 4>>)

\* a full board with no two adjacent equal tiles
BoardDead == BoardOf(<<2, 4, 2, 4,   4, 2, 4, 2,   2, 4, 2, 4,   4, 2, 4, 2>>)

BoardOneGap == BoardOf(<<2, 4, 2, 4,   4, 2, 8, 2,   8, 4, 2, 8,   4, 2, 0, 8>>)

\* a full board that only moves Left and Right
BoardRowPair == BoardOf(<<2, 2, 4, 8,   8, 4, 8, 16,   2, 8, 4, 8,   4, 2, 8, 4>>)

\* a board that only moves Right and Down
BoardCorner == BoardOf(<<2, 4, 2, 4,   4, 2, 4, 2,   2, 4, 2, 4,   4, 2, 4, 0>>)

\* BoardCorner with a pair in its first row
BoardCornerPair == BoardOf(<<2, 4, 2, 2,   4, 2, 4, 2,   2, 4, 2, 4,   4, 2, 4, 0>>)

SampleBoards ==
    {BoardFull, BoardBefore, BoardDead, BoardOneGap, BoardRowPair, BoardCorner,
     BoardCornerPair}

\* the solvers built: depth, min_branch_proba, distinct_tiles_threshold, evaluator
SolverConfigs ==
    ((0..1) \X {<<1, 100>>, <<1, 2>>} \X {3, 4} \X {"Dummy", "EmptyTile"})
        \cup {<<2, <<1, 100>>, 4, "EmptyTile">>, <<2, <<1, 2>>, 4, "Dummy">>}

InitSolver ==
    /\ asked = ZeroState
    /\ transposition_table = <<>>
    /\ answer = NoAnswer
    /\ hits = {}
    /\ nodes = {}
    /\ calls = 0
    /\ proba_4 = <<1, 10>>
    /\ gameover_penalty = <<-200, 1>>
    /\ \E config \in SolverConfigs :
        /\ base_max_search_depth = config[1]
        /\ min_branch_proba = config[2]
        /\ distinct_tiles_threshold = config[3]
        /\ board_evaluator = config[4]
    /\ IdleRow
    /\ IdleConv
    /\ IdleBoard
    /\ IdleEval
    /\ IdleGame

\* solver.next_best_move(b)
NextBestMove ==
    /\ calls < MaxCalls
    /\ calls' = calls + 1
    /\ \E b \in SampleBoards :
         \E r \in {next_best_move(b, transposition_table)} :
             /\ asked' = b
             /\ answer' = [kind |-> r.best.kind, best |-> r.best, cands |-> r.cands,
                           depth |-> max_depth(b)]
             /\ transposition_table' = r.ctx.tt
             /\ hits' = r.ctx.hits
             /\ nodes' = r.ctx.nodes
    /\ UNCHANGED <<configVars, rowVars, convVars, boardVars, evalVars, gameVars>>

NextSolver == NextBestMove

SpecSolver == InitSolver /\ [][NextSolver]_vars

Legal(state, d) == move_to(state, d) # state

\* every cell holds a tile and no two horizontal or vertical neighbours are equal
FullNoAdjacentEqual(state) ==
    /\ \A i \in 1..16 : state[i] # 0
    /\ \A i \in 1..16 : (i % 4 # 0) => state[i] # state[i + 1]
    /\ \A i \in 1..12 : state[i] # state[i + 4]

\* C3: next_best_move returns None exactly when no direction changes the
\* board, which includes every full board without adjacent equal tiles;
\* otherwise it returns a direction that changes the board.
C3_NoneIffNoLegalMove ==
    answer # NoAnswer =>
        /\ answer.kind = "None" <=>
              \A k \in 1..4 : move_to(asked, Direction_all[k]) = asked
        /\ FullNoAdjacentEqual(asked) => answer.kind = "None"
        /\ answer.kind = "Some" => move_to(asked, answer.best.direction) # asked

C3_Witness ==
    /\ answer.kind = "None"
    /\ FullNoAdjacentEqual(asked)
    /\ calls = 2

\* the positions of the candidates no other candidate beats
Maxima(cands) ==
    {k \in 1..Len(cands) : \A j \in 1..Len(cands) : ~FLess(cands[k].score, cands[j].score)}

MinOf(S) == CHOOSE x \in S : \A y \in S : x <= y

MaxOf(S) == CHOOSE x \in S : \A y \in S : y <= x

\* C4 as stated: among the legal directions that share the highest CHANCE
\* value, the first of Left, Right, Up, Down is returned.
C4_TieGoesToFirst ==
    answer.kind = "Some" =>
        answer.best.direction = answer.cands[MinOf(Maxima(answer.cands))].direction

\* C4, amended: among the legal directions that share the highest CHANCE
\* value, the last of Left, Right, Up, Down is returned.
C4_TieGoesToLast ==
    answer.kind = "Some" =>
        /\ Maxima(answer.cands) # {}
        /\ answer.best = answer.cands[MaxOf(Maxima(answer.cands))]

C4_Witness ==
    /\ answer.kind = "Some"
    /\ Cardinality(Maxima(answer.cands)) >= 2
    /\ answer.cands[MinOf(Maxima(answer.cands))].direction = "Left"
    /\ answer.best.direction = "Down"

\* the legal directions of a board, in the order of Direction::all()
LegalDirections(state) ==
    SelectSeq(Direction_all, LAMBDA d : Legal(state, d))

\* C5: the returned direction has a CHANCE value at least that of every other
\* legal direction; the directions evaluated are exactly the legal ones, each
\* valued by eval_average of the moved board at the root depth and
\* probability 1, and a direction that leaves the board unchanged is never
\* returned.
C5_BestIsMaximal ==
    answer.kind = "Some" =>
        /\ \A k \in 1..Len(answer.cands) :
              ~FLess(answer.best.score, answer.cands[k].score)
        /\ \E k \in 1..Len(answer.cands) : answer.cands[k] = answer.best
        /\ [k \in 1..Len(answer.cands) |-> answer.cands[k].direction]
              = LegalDirections(asked)
        /\ answer.cands[1].score =
              eval_average(move_to(asked, answer.cands[1].direction), answer.depth,
                           FOne, [tt |-> <<>>, hits |-> {}]).value
        /\ Legal(asked, answer.best.direction)

C5_Witness ==
    /\ answer.kind = "Some"
    /\ Len(answer.cands) = 2
    /\ answer.depth = 2
    /\ FLess(answer.cands[2].score, answer.cands[1].score)
    /\ answer.best = answer.cands[1]

\* C6: a lookup is answered from the transposition table only if the entry
\* was computed at a remaining depth at least the requested one and under a
\* branch probability at least the current one.
C6_ReuseOnlyIfAsStrict ==
    \A h \in hits :
        /\ h.cached_remaining_depth >= h.remaining_depth
        /\ ~FLess(h.cached_branch_proba, h.branch_proba)

\* C7: the answer for a board does not depend on the calls made before on the
\* same solver: it is the answer of a solver whose table is empty.
C7_AnswerIndependentOfHistory ==
    answer # NoAnswer =>
        LET fresh == eval_max(asked, max_depth(asked), FOne,
                              [tt |-> <<>>, hits |-> {}, nodes |-> {}])
        IN  /\ answer.best = fresh.best
            /\ answer.cands = fresh.cands

C7_Witness ==
    /\ calls = 2
    /\ asked = BoardBefore
    /\ BoardFull \notin DOMAIN transposition_table
    /\ answer.kind = "Some"
    /\ base_max_search_depth = 1

(***************************************************************************)
(* The board operations, applied to one board.                             *)
(***************************************************************************)
\* the cell patterns the boards are drawn from: the empty board, sixteen
\* different cells, sixteen 32768 tiles, a checkerboard, rows that merge both
\* ways, and the board of the tests of board.rs
BoardPatterns ==
    { ZeroState,
      [i \in 1..16 |-> i - 1],
      [i \in 1..16 |-> 15],
      [i \in 1..16 |-> 1 + ((i + ((i - 1) \div 4)) % 2)],
      [i \in 1..16 |-> 1 + ((i - 1) \div 8)],
      <<0, 2, 0, 1,   1, 0, 2, 0,   2, 1, 0, 9,   4, 3, 5, 5>> }

\* a pattern with one cell overwritten
BoardInputs ==
    { [p EXCEPT ![k] = e] : p \in BoardPatterns, k \in 1..16, e \in {0, 1, 15} }

InitBoard ==
    /\ board \in BoardInputs
    /\ result = NoResult
    /\ IdleRow
    /\ IdleConv
    /\ IdleSolver
    /\ IdleEval
    /\ IdleGame

\* board.set_value_by_exponent(tile_idx, value_exponent) and
\* board.set_value(tile_idx, tile_value) on the same board
SetValueByExponent ==
    /\ result = NoResult
    /\ \E idx \in TileIdx, e \in 0..15 :
         \E v \in {2^e, TileOfExponent(e)} :
           result' = [op |-> "set_value_by_exponent",
                      self |-> board,
                      tile_idx |-> idx,
                      value_exponent |-> e,
                      tile_value |-> v,
                      new |-> set_value_by_exponent(board, idx, e),
                      by_value |-> set_value(board, idx, v)]
    /\ UNCHANGED <<board, rowVars, convVars, solverVars, evalVars, gameVars>>

\* board.transpose(), twice, and board.columns()
Transpose ==
    /\ result = NoResult
    /\ result' = [op |-> "transpose",
                  new |-> transpose(board),
                  twice |-> transpose(transpose(board)),
                  columns |-> columns(board)]
    /\ UNCHANGED <<board, rowVars, convVars, solverVars, evalVars, gameVars>>

\* board.move_to(direction)
MoveTo ==
    /\ result = NoResult
    /\ \E k \in 1..4 :
         result' = [op |-> "move_to",
                    direction |-> Direction_all[k],
                    new |-> move_to(board, Direction_all[k])]
    /\ UNCHANGED <<board, rowVars, convVars, solverVars, evalVars, gameVars>>

\* the row/column evaluators tried: the defaults of evaluators.rs and the
\* evaluators its tests build
Evaluators ==
    { [kind |-> "EmptyTile", gameover_penalty |-> 0, power |-> 1],
      [kind |-> "EmptyTile", gameover_penalty |-> 0, power |-> 2],
      [kind |-> "Alignment", gameover_penalty |-> 0, power |-> 2],
      [kind |-> "Monotonicity", gameover_penalty |-> -300, power |-> 2],
      [kind |-> "Monotonicity", gameover_penalty |-> -200000, power |-> 4],
      [kind |-> "Combined",
       evaluators |->
         << [evaluator |-> [kind |-> "EmptyTile", gameover_penalty |-> 0, power |-> 2],
             weight |-> 2],
            [evaluator |-> [kind |-> "Monotonicity", gameover_penalty |-> -300,
                            power |-> 2],
             weight |-> 1] >>] }

\* evaluator.evaluate(board) and
\* PrecomputedBoardEvaluator::new(evaluator).evaluate(board)
EvaluateBoard ==
    /\ result = NoResult
    /\ \E evaluator \in Evaluators :
         result' = [op |-> "evaluate",
                    evaluator |-> evaluator,
                    direct |-> RowColumnEvaluator_evaluate(evaluator, board, 4),
                    direct_penalty |-> RowColumnEvaluator_gameover_penalty(evaluator),
                    precomputed |->
                        PrecomputedBoardEvaluator_evaluate(
                            PrecomputedBoardEvaluator_new(evaluator), board, 4),
                    precomputed_penalty |->
                        PrecomputedBoardEvaluator_gameover_penalty(
                            PrecomputedBoardEvaluator_new(evaluator))]
    /\ UNCHANGED <<board, rowVars, convVars, solverVars, evalVars, gameVars>>

\* board.max_value()
MaxValue ==
    /\ result = NoResult
    /\ result' = [op |-> "max_value", value |-> max_value(board)]
    /\ UNCHANGED <<board, rowVars, convVars, solverVars, evalVars, gameVars>>

\* board.empty_tiles_indices().collect() and board.count_empty_tiles()
EmptyTiles ==
    /\ result = NoResult
    /\ result' = [op |-> "empty_tiles",
                  indices |-> empty_tiles_indices(board),
                  count |-> count_empty_tiles(board)]
    /\ UNCHANGED <<board, rowVars, convVars, solverVars, evalVars, gameVars>>

\* board.count_distinct_tiles()
CountDistinctTiles ==
    /\ result = NoResult
    /\ result' = [op |-> "count_distinct_tiles", value |-> count_distinct_tiles(board)]
    /\ UNCHANGED <<board, rowVars, convVars, solverVars, evalVars, gameVars>>

NextBoard ==
    \/ SetValueByExponent
    \/ Transpose
    \/ MoveTo
    \/ EvaluateBoard
    \/ MaxValue
    \/ EmptyTiles
    \/ CountDistinctTiles

SpecBoard == InitBoard /\ [][NextBoard]_vars

\* cell idx holds e, the 15 other cells hold what they held, set_value gives
\* the same board, and the board the call was made on is what it was
SetFrame(r) ==
    /\ r.new[r.tile_idx + 1] = r.value_exponent
    /\ \A i \in TileIdx : i # r.tile_idx => r.new[i + 1] = r.self[i + 1]
    /\ r.by_value = [kind |-> "ok", state |-> r.new]
    /\ board = r.self

\* C11 as stated: set_value_by_exponent(idx, e) replaces exactly cell idx by
\* e, and set_value(idx, 2^e) returns the same board, for every e in 0..15.
C11_SetValueOfTwoToTheE ==
    (result.op = "set_value_by_exponent" /\ result.tile_value = 2^result.value_exponent)
        => SetFrame(result)

\* C11, amended: set_value_by_exponent(idx, e) replaces exactly cell idx by
\* e and leaves the other cells and the input board alone; set_value(idx, v)
\* returns the same board for v the tile value of e: 0 for e = 0, 2^e above.
C11_SetValueOfTileValue ==
    (/\ result.op = "set_value_by_exponent"
     /\ result.tile_value = (IF result.value_exponent = 0 THEN 0
                             ELSE 2^result.value_exponent))
        => SetFrame(result)

C11_Witness ==
    /\ result.op = "set_value_by_exponent"
    /\ result.value_exponent = 0
    /\ result.tile_value = 0
    /\ result.self[result.tile_idx + 1] = 15
    /\ result.new # result.self

\* the cell in row r and column c, both in 0..3
Cell(state, r, c) == state[4 * r + c + 1]

\* cells (0,i), (1,i), (2,i), (3,i) packed from most to least significant
CellColumn(state, i) ==
    Cell(state, 0, i) * 4096 + Cell(state, 1, i) * 256
    + Cell(state, 2, i) * 16 + Cell(state, 3, i)

\* C12: transpose is an involution and a cell permutation: transposing twice
\* gives the board back, cell (r, c) of the transpose is cell (c, r) of the
\* board, and columns()[i] packs cells (0,i), (1,i), (2,i), (3,i).
C12_TransposeInvolution ==
    result.op = "transpose" =>
        /\ result.twice = board
        /\ \A r \in 0..3, c \in 0..3 : Cell(result.new, r, c) = Cell(board, c, r)
        /\ \A i \in 0..3 : result.columns[i + 1] = CellColumn(board, i)

C12_Witness ==
    /\ result.op = "transpose"
    /\ Cardinality({board[i] : i \in 1..16}) = 16
    /\ result.new # board

\* C13: Up is Left seen through the transpose and Down is Right seen through
\* the transpose, the result being in the untransposed layout; column i of
\* the result is the table entry of column i of the board.
C13_VerticalIsTransposedHorizontal ==
    /\ (result.op = "move_to" /\ result.direction = "Up") =>
          /\ result.new = transpose(move_to(transpose(board), "Left"))
          /\ \A i \in 0..3 :
                CellColumn(result.new, i) = LEFT_MOVES_TABLE[CellColumn(board, i)]
    /\ (result.op = "move_to" /\ result.direction = "Down") =>
          /\ result.new = transpose(move_to(transpose(board), "Right"))
          /\ \A i \in 0..3 :
                CellColumn(result.new, i) = RIGHT_MOVES_TABLE[CellColumn(board, i)]

C13_Witness ==
    /\ result.op = "move_to"
    /\ result.direction = "Up"
    /\ Cell(board, 0, 0) = 15
    /\ Cell(board, 1, 0) = 15
    /\ result.new # board

\* the tiles of the row are packed against its left end and no two
\* neighbouring tiles are equal
TerminalLeft(r) ==
    LET s == UnpackRow(r)
    IN  /\ \A i \in 1..3 : s[i] = 0 => s[i + 1] = 0
        /\ \A i \in 1..3 : s[i] # 0 => s[i] # s[i + 1]

TerminalRight(r) == TerminalLeft(ReverseRow(r))

\* the board whose four rows are r
RowsBoard(r) == [i \in 1..16 |-> RowNibble(r, (i - 1) % 4)]

\* the board whose four columns are r, read from the top
ColumnsBoard(r) == [i \in 1..16 |-> RowNibble(r, (i - 1) \div 4)]

\* C14: a row packed against the leading edge of the move with no two equal
\* neighbours is mapped to itself by the table of that direction; a board
\* made of such rows (Left, Right) or columns (Up, Down) is returned
\* unchanged by move_to, that is, the direction is not legal.
C14_TerminalRowsAreFixed ==
    /\ (left_move # NoRow /\ TerminalLeft(row)) =>
          /\ left_move[1] = row
          /\ ~Legal(RowsBoard(row), "Left")
          /\ ~Legal(ColumnsBoard(row), "Up")
    /\ (right_move # NoRow /\ TerminalRight(row)) =>
          /\ right_move[1] = row
          /\ ~Legal(RowsBoard(row), "Right")
          /\ ~Legal(ColumnsBoard(row), "Down")

C14_Witness ==
    /\ row = PackRow(<<15, 3, 15, 0>>)
    /\ left_move = <<row>>
    /\ right_move # NoRow
    /\ right_move # <<row>>

\* the number of distinct tiles of a board, empty cells left out
RefDistinct(state) == Cardinality({state[i] : i \in 1..16} \ {0})

\* max(base, n - threshold) over the integers
RefDepth(n) ==
    IF n - distinct_tiles_threshold > base_max_search_depth
    THEN n - distinct_tiles_threshold
    ELSE base_max_search_depth

\* the depth a search ran at: the greatest remaining depth it stored
SearchedDepth(table) ==
    MaxOf({table[b].remaining_depth : b \in DOMAIN table})

\* C15: the depth a next_best_move call searches at is
\* max(base_max_search_depth, count_distinct_tiles - distinct_tiles_threshold)
\* in signed arithmetic: at least the base depth, the base depth when the
\* board has fewer distinct tiles than the threshold, and never smaller for
\* a board with more distinct tiles.
C15_DepthIsMaxOfBaseAndAdjusted ==
    answer.kind = "Some" =>
        /\ SearchedDepth(transposition_table) = RefDepth(RefDistinct(asked))
        /\ answer.depth = RefDepth(RefDistinct(asked))
        /\ answer.depth >= base_max_search_depth
        /\ RefDistinct(asked) < distinct_tiles_threshold
              => answer.depth = base_max_search_depth
        /\ \A b \in SampleBoards :
              RefDistinct(b) >= RefDistinct(asked) => max_depth(b) >= answer.depth

C15_Witness ==
    /\ answer.kind = "Some"
    /\ RefDistinct(asked) - distinct_tiles_threshold > base_max_search_depth
    /\ SearchedDepth(transposition_table) = 1
    /\ calls = 2

\* cells (i,0), (i,1), (i,2), (i,3) packed from most to least significant
CellRow(state, i) ==
    Cell(state, i, 0) * 4096 + Cell(state, i, 1) * 256
    + Cell(state, i, 2) * 16 + Cell(state, i, 3)

\* the sum of f over 0..n-1
RECURSIVE SumTo(_, _)
SumTo(f, n) == IF n = 0 THEN 0 ELSE f[n - 1] + SumTo(f, n - 1)

\* C16: the precomputed wrapper of a row/column evaluator gives every board
\* the score the evaluator gives it, the sum of evaluate_row over the four
\* row encodings and the four column encodings, and has the evaluator's
\* gameover penalty.
C16_PrecomputedIsDirect ==
    result.op = "evaluate" =>
        /\ result.precomputed = result.direct
        /\ result.precomputed =
              SumTo([i \in 0..3 |->
                        evaluate_row(result.evaluator, CellRow(board, i))
                        + evaluate_row(result.evaluator, CellColumn(board, i))], 4)
        /\ result.precomputed_penalty = result.direct_penalty

C16_Witness ==
    /\ result.op = "evaluate"
    /\ result.evaluator.kind = "Combined"
    /\ result.precomputed < 0
    /\ \E i \in 0..3 : CellRow(board, i) # CellColumn(board, i)

(***************************************************************************)
(* The monotonicity heuristic, one row and one power at a time.            *)
(***************************************************************************)
\* the u32 powers for which no row overflows the inversion sums
MonotonicityPowers == 1..7

InitEval ==
    /\ row \in U16
    /\ monotonicity_power \in MonotonicityPowers
    /\ score = NoScore
    /\ left_move = NoRow
    /\ right_move = NoRow
    /\ IdleConv
    /\ IdleSolver
    /\ IdleBoard
    /\ IdleGame

\* MonotonicityEvaluator { monotonicity_power, .. }.evaluate_row(row), and the
\* same of the reversed row
EvaluateRow ==
    /\ score = NoScore
    /\ score' = [value |-> MonotonicityEvaluator_evaluate_row(monotonicity_power, row),
                 reversed |-> MonotonicityEvaluator_evaluate_row(monotonicity_power,
                                                                 ReverseRow(row))]
    /\ UNCHANGED <<rowVars, convVars, solverVars, boardVars, monotonicity_power, gameVars>>

NextEval == EvaluateRow

SpecEval == InitEval /\ [][NextEval]_vars

\* D: the sum of left^p - right^p over the descending adjacent pairs of the row
Descents(r, p) ==
    SumTo([i \in 0..2 |->
              IF RowNibble(r, i) > RowNibble(r, i + 1)
              THEN RowNibble(r, i) ^ p - RowNibble(r, i + 1) ^ p ELSE 0], 3)

\* A: the sum of right^p - left^p over the ascending adjacent pairs of the row
Ascents(r, p) ==
    SumTo([i \in 0..2 |->
              IF RowNibble(r, i) < RowNibble(r, i + 1)
              THEN RowNibble(r, i + 1) ^ p - RowNibble(r, i) ^ p ELSE 0], 3)

MinOf2(a, b) == IF a <= b THEN a ELSE b

NonDecreasing(r) == \A i \in 0..2 : RowNibble(r, i) <= RowNibble(r, i + 1)

NonIncreasing(r) == \A i \in 0..2 : RowNibble(r, i) >= RowNibble(r, i + 1)

\* n is a 24-bit significand times a power of two
IsF32(n) == \E k \in 0..7 : n % (2 ^ k) = 0 /\ n \div (2 ^ k) <= 16777216

\* the spacing of the f32 values around n
Spacing(n) == CHOOSE u \in {2 ^ k : k \in 0..7} : n < 16777216 * u /\ (u = 1 \/ n >= 8388608 * u)

\* C17 as stated: the row score is -min(D, A) for every row and every power
\* in 1..7, is never positive, is 0 exactly for the monotone rows and is the
\* same for the reversed row.
C17_ScoreIsMinusMin ==
    score # NoScore =>
        /\ score.value = -MinOf2(Descents(row, monotonicity_power),
                                 Ascents(row, monotonicity_power))
        /\ score.value <= 0
        /\ (score.value = 0) <=> (NonDecreasing(row) \/ NonIncreasing(row))
        /\ score.reversed = score.value

\* C17 amended: the row score is -min(D, A) rounded to the nearest f32, which
\* is -min(D, A) itself up to 2^24 and so for every power in 1..6; it is never
\* positive, is 0 exactly for the monotone rows and is the same for the
\* reversed row.
C17_ScoreIsMinusMinAsF32 ==
    score # NoScore =>
        LET m == MinOf2(Descents(row, monotonicity_power),
                        Ascents(row, monotonicity_power))
        IN  /\ IsF32(-score.value)
            /\ 2 * Abs(score.value + m) <= Spacing(m)
            /\ m <= 16777216 => score.value = -m
            /\ monotonicity_power <= 6 => m <= 16777216
            /\ score.value <= 0
            /\ (score.value = 0) <=> (NonDecreasing(row) \/ NonIncreasing(row))
            /\ score.reversed = score.value

C17_Witness ==
    /\ score # NoScore
    /\ monotonicity_power = 7
    /\ row = 61680
    /\ score.value = -170859376
    /\ Descents(row, monotonicity_power) = 341718750
    /\ Ascents(row, monotonicity_power) = 170859375

\* C18: max_value is the greatest get_value over the sixteen tiles, an empty
\* tile counting as 0, on every board: the board with no tile and the boards
\* whose highest tile is 32768 included.
C18_MaxValueIsGreatestTile ==
    result.op = "max_value" =>
        result.value = MaxOf({get_value(board, idx) : idx \in TileIdx})

\* the indices of the tiles whose exponent is 0
EmptyCells(state) == {idx \in TileIdx : Cell(state, idx \div 4, idx % 4) = 0}

\* C19: empty_tiles_indices yields, in ascending order and each once, exactly
\* the indices whose exponent is 0, and count_empty_tiles is their number: 0
\* on a full board, 16 on the empty one.
C19_EmptyTilesAscendingAndCounted ==
    result.op = "empty_tiles" =>
        /\ \A i \in 1..(Len(result.indices) - 1) : result.indices[i] < result.indices[i + 1]
        /\ {result.indices[i] : i \in 1..Len(result.indices)} = EmptyCells(board)
        /\ result.count = Cardinality(EmptyCells(board))
        /\ (\A idx \in TileIdx : get_value(board, idx) # 0) => result.count = 0
        /\ board = ZeroState => result.count = 16

C19_Witness ==
    /\ result.op = "empty_tiles"
    /\ Len(result.indices) \in 2..14
    /\ result.indices[1] = 0
    /\ result.indices[Len(result.indices)] = 15
    /\ result.count = Len(result.indices)

\* C20: count_distinct_tiles is the number of distinct non-zero exponents on
\* the board: empty tiles are not counted, a repeated exponent counts once,
\* exponent 15 counts, and the result lies in 0..15.
C20_DistinctNonZeroExponents ==
    result.op = "count_distinct_tiles" =>
        /\ result.value = RefDistinct(board)
        /\ result.value \in 0..15

C20_Witness ==
    /\ result.op = "count_distinct_tiles"
    /\ \E i, j \in 1..16 : i # j /\ board[i] = board[j] /\ board[i] # 0
    /\ \E i \in 1..16 : board[i] = 0
    /\ \E i \in 1..16 : board[i] = 15
    /\ result.value \in 3..14

(***************************************************************************)
(* The game: Game (game.rs) driven by the key loop of main (main.rs).      *)
(* result holds what the last key did; a panic ends the program.           *)
(***************************************************************************)
\* the accepted moves of one game
MaxTurns == 1

\* Game::populate_new_tile writing at rnd_idx % 16, whatever the cell holds
populate_new_tile_any_cell(state, rnd_value, rnd_idx) ==
    LET populated_value == IF FLess(rnd_value, proba_4) THEN 4 ELSE 2
    IN  [kind |-> "ok",
         populated_value |-> populated_value,
         state |-> set_value(state, rnd_idx % 16, populated_value).state]

\* Game::populate_new_tile: rnd_idx % empty_tiles.len() panics on a board
\* without an empty tile
populate_new_tile(state, rnd_value, rnd_idx) ==
    LET populated_value == IF FLess(rnd_value, proba_4) THEN 4 ELSE 2
        empty_tiles == empty_tiles_indices(state)
    IN  IF Len(empty_tiles) = 0
        THEN [kind |-> "panic"]
        ELSE [kind |-> "ok",
              populated_value |-> populated_value,
              state |-> set_value(state, empty_tiles[(rnd_idx % Len(empty_tiles)) + 1],
                                  populated_value).state]

\* Game::play
Game_play(state, direction) == move_to(state, direction)

\* play of main.rs without the test of previous_board == game.board
play_always_populate(state, direction, rnd_value, rnd_idx) ==
    LET moved == Game_play(state, direction)
        populated == populate_new_tile(moved, rnd_value, rnd_idx)
    IN  IF populated.kind = "panic"
        THEN [kind |-> "panic", accepted |-> TRUE, moved |-> moved, board |-> moved]
        ELSE [kind |-> "ok", accepted |-> TRUE, moved |-> moved,
              board |-> populated.state,
              populated_value |-> populated.populated_value]

\* play of main.rs with the new tile drawn before the move is made
play_populate_first(state, direction, rnd_value, rnd_idx) ==
    LET populated == populate_new_tile(state, rnd_value, rnd_idx)
    IN  IF state = Game_play(state, direction)
        THEN [kind |-> "ok", accepted |-> FALSE, moved |-> state, board |-> state]
        ELSE IF populated.kind = "panic"
        THEN [kind |-> "panic", accepted |-> TRUE, moved |-> state, board |-> state]
        ELSE [kind |-> "ok", accepted |-> TRUE,
              moved |-> Game_play(populated.state, direction),
              board |-> Game_play(populated.state, direction),
              populated_value |-> populated.populated_value]

\* play of main.rs: the move, then a new tile unless the board did not change
play(state, direction, rnd_value, rnd_idx) ==
    LET previous_board == state
        moved == Game_play(state, direction)
        populated == populate_new_tile(moved, rnd_value, rnd_idx)
    IN  IF previous_board = moved
        THEN [kind |-> "ok", accepted |-> FALSE, moved |-> moved, board |-> moved]
        ELSE IF populated.kind = "panic"
        THEN [kind |-> "panic", accepted |-> TRUE, moved |-> moved, board |-> moved]
        ELSE [kind |-> "ok", accepted |-> TRUE, moved |-> moved,
              board |-> populated.state,
              populated_value |-> populated.populated_value]

\* the draws of rng.gen::<f32>() tried: one below proba_4 and proba_4 itself
RndValues == {<<1, 20>>, <<1, 10>>}

\* the draws of rng.gen::<usize>() tried
RndIdx == {0, 5, 18}

\* the board main starts from
MainBoard == BoardOf(<<0, 2, 0, 0,   0, 0, 0, 0,   0, 0, 0, 0,   0, 0, 0, 0>>)

\* a board with two 32768 tiles side by side
BoardTopPair ==
    BoardOf(<<32768, 32768, 2, 4,   4, 2, 4, 2,   2, 4, 2, 4,   4, 2, 4, 2>>)

\* boards of a game under way
LateBoards ==
    {BoardFull, BoardBefore, BoardDead, BoardOneGap, BoardRowPair, BoardCorner,
     BoardTopPair}

\* either main is about to populate its first board, or the loop is under
\* way on a later board
InitGame ==
    /\ \/ board = MainBoard /\ result = NoResult
       \/ board \in LateBoards /\ result = [op |-> "loop"]
    /\ autoplay = FALSE
    /\ turns = 0
    /\ asked = ZeroState
    /\ transposition_table = <<>>
    /\ answer = NoAnswer
    /\ hits = {}
    /\ nodes = {}
    /\ calls = 0
    /\ proba_4 = <<1, 10>>
    /\ base_max_search_depth = 0
    /\ gameover_penalty = <<-300, 1>>
    /\ min_branch_proba = <<1, 1000>>
    /\ distinct_tiles_threshold = 3
    /\ board_evaluator = "EmptyTile"
    /\ IdleRow
    /\ IdleConv
    /\ IdleEval

Running == result # NoResult /\ result.op # "panic"

\* what the loop records of one call of play
Played(key, previous, next_move, p) ==
    [op |-> IF p.kind = "panic" THEN "panic" ELSE "key",
     key |-> key,
     previous |-> previous,
     next_move |-> next_move,
     accepted |-> p.accepted,
     moved |-> p.moved,
     populated_value |-> IF p.kind = "ok" /\ p.accepted THEN p.populated_value ELSE 0]

\* main before the loop: game.populate_new_tile() on the first board
Start ==
    /\ result = NoResult
    /\ \E rnd_value \in RndValues, rnd_idx \in RndIdx :
         \E p \in {populate_new_tile(board, rnd_value, rnd_idx)} :
            /\ board' = (IF p.kind = "ok" THEN p.state ELSE board)
            /\ result' = [op |-> IF p.kind = "ok" THEN "start" ELSE "panic",
                          previous |-> board, moved |-> board, accepted |-> TRUE,
                          populated_value |-> IF p.kind = "ok" THEN p.populated_value
                                              ELSE 0]
    /\ UNCHANGED <<rowVars, convVars, solverVars, evalVars, gameVars>>

\* Key::Left, Key::Right, Key::Up, Key::Down => play(&mut game, direction)
KeyArrow ==
    /\ Running
    /\ \E k \in 1..4 :
         /\ Game_play(board, Direction_all[k]) # board => turns < MaxTurns
         /\ \E rnd_value \in RndValues, rnd_idx \in RndIdx :
              \E p \in {play(board, Direction_all[k], rnd_value, rnd_idx)} :
                 /\ board' = p.board
                 /\ turns' = (IF p.accepted THEN turns + 1 ELSE turns)
                 /\ result' = Played(Direction_all[k], board,
                                     [kind |-> "Some", direction |-> Direction_all[k]],
                                     p)
    /\ UNCHANGED <<rowVars, convVars, solverVars, evalVars, autoplay>>

\* no direction is legal on the board
GameOver(state) == \A k \in 1..4 : move_to(state, Direction_all[k]) = state

\* if let Some(next_move) = solver.next_best_move(game.board) { play(..) },
\* for as long as a turn is left or no direction is legal
SolverPlay(key) ==
    /\ turns < MaxTurns \/ GameOver(board)
    /\ \E r \in {next_best_move(board, transposition_table)} :
       /\ transposition_table' = r.ctx.tt
       /\ nodes' = r.ctx.nodes
       /\ IF r.best.kind = "None"
          THEN /\ board' = board
               /\ turns' = turns
               /\ result' = [op |-> "key", key |-> key, previous |-> board,
                             next_move |-> NoneMove, accepted |-> FALSE,
                             moved |-> board, populated_value |-> 0]
          ELSE /\ Game_play(board, r.best.direction) # board => turns < MaxTurns
               /\ \E rnd_value \in RndValues, rnd_idx \in RndIdx :
                 \E p \in {play(board, r.best.direction, rnd_value, rnd_idx)} :
                    /\ board' = p.board
                    /\ turns' = (IF p.accepted THEN turns + 1 ELSE turns)
                    /\ result' = Played(key, board,
                                        [kind |-> "Some",
                                         direction |-> r.best.direction], p)

\* Key::Char('p'), and no key while autoplay is set: both arms of the loop
\* run if let Some(next_move) = solver.next_best_move(game.board) { play(..) }
KeyPOrAutoplayTick ==
    /\ Running
    /\ \E key \in {"p", "none"} :
         /\ key = "none" => autoplay
         /\ SolverPlay(key)
    /\ UNCHANGED <<rowVars, convVars, evalVars, autoplay,
                   asked, answer, hits, calls, configVars>>

\* Key::Char('a') => autoplay = !autoplay
KeyA ==
    /\ Running
    /\ autoplay' = ~autoplay
    /\ result' = [op |-> "key", key |-> "a", previous |-> board,
                  next_move |-> NoneMove, accepted |-> FALSE, moved |-> board,
                  populated_value |-> 0]
    /\ UNCHANGED <<board, turns, rowVars, convVars, solverVars, evalVars>>

NextGame == Start \/ KeyArrow \/ KeyPOrAutoplayTick \/ KeyA

SpecGame == InitGame /\ [][NextGame]_vars

\* the number of tiles on the board
NbNonEmpty(state) == Cardinality({i \in 1..16 : state[i] # 0})

IsLeaf(remaining_depth, branch_proba) ==
    remaining_depth = 0 \/ FLess(branch_proba, min_branch_proba)

RECURSIVE WeightedSum(_, _)
WeightedSum(children, k) ==
    IF k = 0 THEN FZero
    ELSE FAdd(WeightedSum(children, k - 1),
              FMul(children[k].proba, children[k].max_score))

\* the sum of the weights of the first k children
RECURSIVE WeightSum(_, _)
WeightSum(children, k) ==
    IF k = 0 THEN FZero ELSE FAdd(WeightSum(children, k - 1), children[k].proba)

\* a <= b
FLeq(a, b) == ~FLess(b, a)

\* C23: the value of an expanded CHANCE node is the weighted sum of the MAX
\* values of its children, one per empty cell and draw (a 2 with weight
\* 1 - proba_4, a 4 with weight proba_4), divided by the number of empty
\* cells; the weights divided by that number sum to 1, the value lies between
\* the smallest and the largest child value, and each child is searched at
\* remaining depth - 1 under the branch probability times its weight.
C23_ChanceIsWeightedAverage ==
    \A n \in nodes :
        LET empties == EmptyCells(n.board)
            nb == Cardinality(empties)
            ch == n.children
        IN  /\ nb > 0
            /\ Len(ch) = 2 * nb
            /\ {<<ch[k].idx, ch[k].draw>> : k \in 1..Len(ch)} = empties \X {1, 2}
            /\ \A k \in 1..Len(ch) :
                  /\ ch[k].board = [n.board EXCEPT ![ch[k].idx + 1] = ch[k].draw]
                  /\ ch[k].proba = (IF ch[k].draw = 1 THEN FComplement(proba_4)
                                    ELSE proba_4)
                  /\ ch[k].remaining_depth = n.remaining_depth - 1
                  /\ ch[k].branch_proba = FMul(n.branch_proba, ch[k].proba)
            /\ n.value = FDivInt(WeightedSum(ch, Len(ch)), nb)
            /\ FDivInt(WeightSum(ch, Len(ch)), nb) = FOne
            /\ \E k \in 1..Len(ch) : FLeq(ch[k].max_score, n.value)
            /\ \E k \in 1..Len(ch) : FLeq(n.value, ch[k].max_score)

C23_Witness ==
    \E n \in nodes :
        /\ Len(n.children) = 4
        /\ n.remaining_depth = 2
        /\ \E j, k \in 1..4 : FLess(n.children[j].max_score, n.value)
                              /\ FLess(n.value, n.children[k].max_score)

\* C24: a draw that leaves no legal direction contributes the solver's
\* gameover_penalty times its weight, the search does not go on from that
\* board, and its heuristic evaluation is not used.
C24_DeadEndIsPenalised ==
    \A n \in nodes :
        \A k \in 1..Len(n.children) :
            LET c == n.children[k]
                dead == \A d \in 1..4 : move_to(c.board, Direction_all[d]) = c.board
            IN  /\ dead <=> c.kind = "None"
                /\ dead => /\ c.max_score = gameover_penalty
                           /\ c.board \notin DOMAIN transposition_table
                           /\ \A m \in nodes : m.board # c.board

C24_Witness ==
    \E n \in nodes :
        \E k \in 1..Len(n.children) :
            /\ n.children[k].kind = "None"
            /\ n.children[k].max_score = gameover_penalty
            /\ n.children[k].max_score # evaluate(n.children[k].board)
            /\ \E j \in 1..Len(n.children) : n.children[j].kind = "Some"

\* the expectiminimax search of eval_max and eval_average with the same depth,
\* the same pruning rule and the same evaluator, and no table
RECURSIVE PlainMax(_, _, _, _)
RECURSIVE PlainAverage(_, _, _)
RECURSIVE PlainSum(_, _, _, _)

PlainSum(state, remaining_depth, branch_proba, j) ==
    IF j = 0
    THEN FZero
    ELSE LET idx == empty_tiles_indices(state)[(j + 1) \div 2]
             draw == IF j % 2 = 1 THEN 1 ELSE 2
             proba == IF draw = 1 THEN FComplement(proba_4) ELSE proba_4
         IN  Let(LAMBDA rest :
                   Let(LAMBDA best :
                         FAdd(rest,
                              FMul(IF best.kind = "None" THEN gameover_penalty
                                   ELSE best.score, proba)),
                       PlainMax([state EXCEPT ![idx + 1] = draw], remaining_depth - 1,
                                FMul(branch_proba, proba), 4)),
                 PlainSum(state, remaining_depth, branch_proba, j - 1))

PlainAverage(state, remaining_depth, branch_proba) ==
    IF IsLeaf(remaining_depth, branch_proba)
    THEN evaluate(state)
    ELSE FDivInt(PlainSum(state, remaining_depth, branch_proba,
                          2 * Cardinality(EmptyCells(state))),
                 Cardinality(EmptyCells(state)))

\* the best of the first k directions, the later one on equal values
PlainMax(state, remaining_depth, branch_proba, k) ==
    IF k = 0
    THEN NoneMove
    ELSE Let(LAMBDA before :
               IF move_to(state, Direction_all[k]) = state
               THEN before
               ELSE Let(LAMBDA value :
                          IF before.kind = "Some" /\ FLess(value, before.score)
                          THEN before
                          ELSE [kind |-> "Some", direction |-> Direction_all[k],
                                score |-> value],
                        PlainAverage(move_to(state, Direction_all[k]), remaining_depth,
                                     branch_proba)),
             PlainMax(state, remaining_depth, branch_proba, k - 1))

\* C25: the direction and the root value next_best_move computes with the
\* transposition table are those of the same search without memoization.
C25_TableNeverChangesAnswer ==
    answer # NoAnswer => answer.best = PlainMax(asked, answer.depth, FOne, 4)

\* the total of the sixteen tile values of a board
TotalValue(state) == SumTo([idx \in TileIdx |-> get_value(state, idx)], 16)

\* how many cells of the board hold the exponent
CountExponent(state, e) == Cardinality({i \in 1..16 : state[i] = e})

\* C26: for every board of exponents 0..15, two adjacent 32768 tiles
\* included, and every direction, move_to conserves the total of the tile
\* values, and every tile of the result is a tile of the input or the merge
\* of two equal tiles of the input.
C26_MoveConservesTotal ==
    result.op = "move_to" =>
        /\ TotalValue(result.new) = TotalValue(board)
        /\ \A i \in 1..16 :
              result.new[i] # 0 =>
                  \/ CountExponent(board, result.new[i]) >= 1
                  \/ CountExponent(board, result.new[i] - 1) >= 2

\* C27: a board that move_to changes has an empty cell afterwards, so that
\* neither the division by the number of empty cells in an expanded CHANCE
\* node nor the modulo of populate_new_tile after an accepted move has a zero
\* divisor.
C27_ChangedBoardHasEmptyCell ==
    /\ \A k \in 1..4 :
          move_to(board, Direction_all[k]) # board
              => count_empty_tiles(move_to(board, Direction_all[k])) >= 1
    /\ \A node \in nodes :
          /\ count_empty_tiles(node.board) >= 1
          /\ Len(node.children) = 2 * count_empty_tiles(node.board)
    /\ result # NoResult =>
          /\ result.op # "panic"
          /\ (result.op = "key" /\ result.accepted)
                => count_empty_tiles(result.moved) >= 1

C27_Witness ==
    /\ result # NoResult
    /\ result.op = "key"
    /\ result.key = "p"
    /\ result.accepted
    /\ count_empty_tiles(result.moved) = 1
    /\ NbNonEmpty(board) = 16
    /\ \E node \in nodes : count_empty_tiles(node.board) = 1

\* the node was asked for by the root at the effective max depth, or by a
\* child of an expanded node at that child's depth and branch probability
Requested(node) ==
    \/ /\ node.remaining_depth = answer.depth
       /\ node.branch_proba = FOne
       /\ \E k \in 1..4 : /\ move_to(asked, Direction_all[k]) # asked
                          /\ node.board = move_to(asked, Direction_all[k])
    \/ \E parent \in nodes :
          \E i \in 1..Len(parent.children) :
             /\ node.remaining_depth = parent.children[i].remaining_depth
             /\ node.branch_proba = parent.children[i].branch_proba
             /\ \E k \in 1..4 :
                   /\ move_to(parent.children[i].board, Direction_all[k])
                          # parent.children[i].board
                   /\ node.board = move_to(parent.children[i].board, Direction_all[k])

\* C28: a call of next_best_move ends: every CHANCE node it expands has a
\* remaining depth between 1 and the effective max depth of the root, hands
\* its children its remaining depth less one, never less than 0, and a
\* branch probability no greater than its own, and was itself asked for by
\* the root or by such a child, so that a path of the search holds at most
\* as many expansions as the effective max depth.
C28_SearchIsBounded ==
    answer # NoAnswer =>
        \A node \in nodes :
           /\ node.remaining_depth \in 1..answer.depth
           /\ FLeq(node.branch_proba, FOne)
           /\ \A i \in 1..Len(node.children) :
                 /\ node.children[i].remaining_depth = node.remaining_depth - 1
                 /\ node.children[i].remaining_depth >= 0
                 /\ FLeq(node.children[i].branch_proba, node.branch_proba)
           /\ Requested(node)

C28_Witness ==
    /\ answer # NoAnswer
    /\ answer.depth = 2
    /\ \E node \in nodes : node.remaining_depth = 2
    /\ \E node \in nodes :
          /\ node.remaining_depth = 1
          /\ FLess(node.branch_proba, FOne)
          /\ Len(node.children) >= 2
          /\ \A i \in 1..Len(node.children) : node.children[i].remaining_depth = 0

\* the cells in which two boards differ
DifferingCells(before, after) == {i \in 1..16 : before[i] # after[i]}

\* C29: an action of the player or of the solver is all or nothing and
\* ordered: a direction that does not change the board leaves it as it was
\* and spawns no tile; a direction that changes it is applied first and then
\* exactly one tile, a 2 or a 4, is spawned in a cell the move left empty;
\* after every completed turn the board holds between 2 and 16 tiles.
C29_TurnIsAllOrNothing ==
    /\ (result # NoResult /\ result.op = "key" /\ result.next_move.kind = "Some") =>
          /\ result.moved = move_to(result.previous, result.next_move.direction)
          /\ result.accepted <=> (result.moved # result.previous)
          /\ ~result.accepted =>
                /\ board = result.previous
                /\ result.populated_value = 0
          /\ result.accepted =>
                /\ Cardinality(DifferingCells(result.moved, board)) = 1
                /\ \A i \in DifferingCells(result.moved, board) :
                      /\ result.moved[i] = 0
                      /\ get_value(board, i - 1) = result.populated_value
                /\ result.populated_value \in {2, 4}
                /\ NbNonEmpty(board) = NbNonEmpty(result.moved) + 1
    /\ (result # NoResult /\ result.op \in {"start", "key"}) =>
          NbNonEmpty(board) \in 2..16

C29_Witness ==
    /\ result # NoResult
    /\ result.op = "key"
    /\ result.next_move.kind = "Some"
    /\ result.accepted
    /\ NbNonEmpty(result.moved) < NbNonEmpty(result.previous)
    /\ NbNonEmpty(board) = 2

\* C30: game over is absorbing: a step of the loop taken on a board on which
\* no direction is legal, whatever the key pressed or the autoplay setting,
\* leaves the board as it is and spawns no tile, and the solver asked about
\* the board returns None.
C30_GameOverIsAbsorbing ==
    [][GameOver(board) =>
          /\ board' = board
          /\ ~result'.accepted
          /\ result'.populated_value = 0
          /\ result'.key \in {"p", "none"} => result'.next_move = NoneMove]_vars

C30_Witness ==
    /\ result # NoResult
    /\ result.op = "key"
    /\ result.key = "p"
    /\ GameOver(result.previous)
    /\ result.next_move = NoneMove
    /\ board = BoardDead
    /\ autoplay

====
